---- MODULE Spec2Model ----
(***************************************************************************)
(* Tenant isolation and lifecycle control plane of HRMS-SAAS:              *)
(*   - TenantService (app/services/tenant_service.py)                      *)
(*   - TenantDatabaseManager (app/core/database.py)                        *)
(*   - ModuleAccessMiddleware (app/middleware/module_access.py)            *)
(*                                                                         *)
(* Handlers are coroutines on one event loop: a handler runs atomically    *)
(* between two awaits that really suspend (a database round trip, an       *)
(* engine dispose), so every action below is the code between two such     *)
(* awaits.  The ORM plumbing (session context managers, declarative        *)
(* constructors) is taken to work as the handlers use it.  The database    *)
(* is PostgreSQL (the models use its JSONB and schemas): a transaction     *)
(* sees committed rows, and a unique index makes an insert wait for an    *)
(* uncommitted holder of the same key.                                     *)
(***************************************************************************)
EXTENDS Integers, Sequences, FiniteSets, TLC

(***************************************************************************)
(* Bounds of the model                                                     *)
(***************************************************************************)
MaxTenants == 2      \* ids the tenants_id_seq sequence may hand out
NumWorkers == 2      \* concurrent request handlers
MaxHistory == 2      \* subscription-history rows kept
MaxDay     == 1      \* days the clock may advance
MaxEngines == 3      \* engines the router may construct
MaxUsageLogs == 1    \* usage-log rows kept

Workers == 1..NumWorkers

(***************************************************************************)
(* Input domains                                                           *)
(***************************************************************************)
\* slugs are character sequences; "2" is a slug made of digits only
Slugs == {<<"a">>, <<"2">>}
\* plan_type arguments: two catalog plans, one enum member that has no
\* catalog row, one string outside the enum
PlanInputs == {"free", "basic", "custom", "gold"}
AdminNames == {"root", "ops"}

NoDate == -1

(***************************************************************************)
(* models/tenant.py enumerations                                           *)
(***************************************************************************)
TenantStatus == {"active", "pending", "inactive", "suspended", "trial",
                 "expired", "cancelled"}
TenantPlan == {"free", "basic", "professional", "enterprise", "custom"}

(***************************************************************************)
(* models/subscription.py defaults                                         *)
(***************************************************************************)
DEFAULT_MODULES == {"core", "employees", "departments", "leave", "attendance",
                    "payroll", "performance", "recruitment", "training",
                    "documents"}

DEFAULT_PLANS ==
  { [plan_type |-> "free", max_users |-> 3, max_employees |-> 10,
     max_storage_gb |-> 1,
     enabled_modules |-> {"core", "employees", "departments"},
     trial_days |-> 0],
    [plan_type |-> "basic", max_users |-> 10, max_employees |-> 50,
     max_storage_gb |-> 5,
     enabled_modules |-> {"core", "employees", "departments", "leave",
                          "attendance"},
     trial_days |-> 14],
    [plan_type |-> "professional", max_users |-> 25, max_employees |-> 200,
     max_storage_gb |-> 20,
     enabled_modules |-> {"core", "employees", "departments", "leave",
                          "attendance", "payroll", "performance"},
     trial_days |-> 14],
    [plan_type |-> "enterprise", max_users |-> 100, max_employees |-> 1000,
     max_storage_gb |-> 100,
     enabled_modules |-> {"core", "employees", "departments", "leave",
                          "attendance", "payroll", "performance",
                          "recruitment", "training", "documents"},
     trial_days |-> 30] }

\* a catalog in which leave needs payroll
module_dependencies_leave_needs_payroll(module) ==
  IF module = "leave" THEN {"payroll"} ELSE {}

\* ModuleDefinition.dependencies of a seeded module: no DEFAULT_MODULES entry
\* gives the key, so the column default (an empty list) applies, and nothing
\* else writes the column
module_dependencies(module) == {}

DefaultPlanTypes == {p.plan_type : p \in DEFAULT_PLANS}

PlanData(pt) == CHOOSE p \in DEFAULT_PLANS : p.plan_type = pt

\* SubscriptionPlan.feature_flags of a seeded plan: DEFAULT_PLANS gives none,
\* the column default (dict) applies; the flags that are switched on
plan_feature_flags(plan) == {}

\* names a tenant is created with or renamed to
TenantNames == {"Acme", "Acme Ltd"}

\* names of the default roles created with a tenant
RoleNames == {"Admin", "Manager", "Employee", "HR Staff"}

(***************************************************************************)
(* State                                                                   *)
(***************************************************************************)
VARIABLES
  planRows,     \* public.subscription_plans: plan_type -> number of rows
  moduleRows,   \* public.module_definitions: the names that have a row
  tenants,      \* public.tenants, committed rows: id -> row
  nextId,       \* next value of the tenants id sequence
  users,        \* committed admin users: set of [username, tenant_id]
  roles,        \* committed roles: set of [name, tenant_id]
  history,      \* public.tenant_subscription_history, committed, in order
  schemas,      \* committed schemas (partitions), by slug
  today,        \* date.today(), in days
  wk,           \* per worker: the handler it runs and where it is
  last,         \* the call that returned or raised last, and its outcome
  usage_logs,   \* public.tenant_usage_logs, committed, in order
  tokens,       \* tenant claims of the access tokens login has issued
  gate,         \* what ModuleAccessMiddleware did with the last request
  tenant_engines,          \* TenantDatabaseManager.tenant_engines: slug -> engine
  tenant_session_makers,   \* ...tenant_session_makers: slug -> bound engine
  engines,      \* every engine create_async_engine has built, in order
  rt            \* per worker: the router call it runs and where it is

gateVars == <<tokens, gate>>
routerVars == <<tenant_engines, tenant_session_makers, engines, rt>>

vars == <<planRows, moduleRows, tenants, nextId, users, roles, history, schemas, today, wk,
          last, usage_logs, gateVars, routerVars>>

\* mapped columns of Tenant the lifecycle service reads or writes
TenantColumns == {"slug", "name", "plan", "status", "max_users", "max_employees",
                  "max_storage_gb", "enabled_modules", "feature_flags",
                  "trial_ends_at", "is_deleted"}

IdleWorker == [pc |-> "idle", op |-> "none", slug |-> <<>>, plan_type |-> "none",
               admin |-> "none", tid |-> 0, loaded |-> <<>>, obj |-> <<>>,
               i |-> 0, new_modules |-> {}, new_plans |-> {}]

NoCall == [op |-> "none", res |-> "none", tid |-> 0, slug |-> <<>>,
           was |-> "none"]

\* no request has gone through the middleware yet
NoRequest == [op |-> "none", scope |-> "none", module |-> "none", claim |-> <<>>, source |-> "none",
              tid |-> 0, chk |-> "skipped", res |-> "none",
              status_code |-> 0, detail |-> <<>>, path |-> <<>>,
              app_calls |-> 0]

\* a worker that runs no router call; sess is the AsyncSession it holds
IdleRouter == [pc |-> "idle", op |-> "none", slug |-> <<>>, sess |-> <<>>]

Init ==
  /\ planRows = [pt \in DefaultPlanTypes |-> 0]
  /\ moduleRows = {}
  /\ tenants = <<>>
  /\ nextId = 1
  /\ users = {}
  /\ roles = {}
  /\ history = <<>>
  /\ schemas = {}
  /\ today = 0
  /\ wk = [w \in Workers |-> IdleWorker]
  /\ last = NoCall
  /\ usage_logs = <<>>
  /\ tokens = {}
  /\ gate = NoRequest
  /\ tenant_engines = <<>>
  /\ tenant_session_makers = <<>>
  /\ engines = <<>>
  /\ rt = [w \in Workers |-> IdleRouter]

(***************************************************************************)
(* Queries                                                                 *)
(***************************************************************************)
\* TenantService._get_subscription_plan: scalar_one_or_none over the active
\* rows of that plan_type: "none", "one" or "many" (MultipleResultsFound)
_get_subscription_plan(pt) ==
  IF pt \notin DOMAIN planRows THEN "none"
  ELSE IF planRows[pt] = 0 THEN "none"
  ELSE IF planRows[pt] = 1 THEN "one"
  ELSE "many"

\* a lookup that falls back to some tenant when the id has no row
_get_tenant_by_id_or_any(tid) ==
  IF tid \in DOMAIN tenants THEN <<tenants[tid]>>
  ELSE IF DOMAIN tenants # {} THEN <<tenants[CHOOSE t \in DOMAIN tenants : TRUE]>>
  ELSE <<>>

\* TenantService._get_tenant_by_id
_get_tenant_by_id(tid) == IF tid \in DOMAIN tenants THEN <<tenants[tid]>> ELSE <<>>

\* Tenant.is_active
is_active(row) == row.status \in {"active", "trial"}

\* Tenant.has_module_access
has_module_access(row, module) == module \in row.enabled_modules

\* TenantService.check_module_access
check_module_access(tid, module) ==
  LET t == _get_tenant_by_id(tid)
  IN  IF t = <<>> THEN FALSE ELSE has_module_access(t[1], module)

(***************************************************************************)
(* Unit of work                                                            *)
(***************************************************************************)
\* the mapped columns of an in-memory Tenant object
Columns(obj) == [c \in TenantColumns |-> obj[c]]

\* session.commit() on a loaded object: the UPDATE carries the columns whose
\* value differs from the loaded one, the other columns keep what the row
\* holds at that moment
FlushUpdate(cur, loaded, obj) ==
  [c \in TenantColumns |-> IF obj[c] # loaded[c] THEN obj[c] ELSE cur[c]]

\* a handler returns or raises: its session is closed, the worker is idle
\* again and the outcome goes to the caller
Return(w, call, r) ==
  /\ wk' = [wk EXCEPT ![w] = IdleWorker]
  /\ last' = [op |-> call.op, res |-> r, tid |-> call.tid, slug |-> call.slug,
              was |-> IF call.loaded = <<>> THEN "none"
                      ELSE call.loaded[1].status]

Finish(w, r) == Return(w, wk[w], r)

\* a handler whose except block leaves the flushed tenant row in the table
RollbackKeepsFlushed(w, r) ==
  /\ Finish(w, r)
  /\ tenants' = IF wk[w].op = "create_tenant" /\ wk[w].obj # <<>>
                THEN tenants @@ (wk[w].tid :> Columns(wk[w].obj[1]))
                ELSE tenants
  /\ UNCHANGED <<users, roles, history>>

\* except: await session.rollback(); raise -- nothing the session flushed
\* reaches the tables
Rollback(w, r) ==
  /\ Finish(w, r)
  /\ UNCHANGED <<tenants, users, roles, history>>

\* the handler goes on to its next await
Goto(w, state) ==
  /\ wk' = [wk EXCEPT ![w] = state]
  /\ UNCHANGED last

\* the tenant row a create_tenant in flight has flushed but not committed
HoldsSlug(v, slug) ==
  /\ wk[v].op = "create_tenant"
  /\ wk[v].pc \in {"schema_exec", "schema_blocked", "schema_commit", "admin",
                  "commit"}
  /\ wk[v].slug = slug

HoldsAdmin(v, admin) ==
  /\ wk[v].op = "create_tenant"
  /\ wk[v].pc = "commit"
  /\ wk[v].admin = admin

(***************************************************************************)
(* TenantService.initialize_default_data                                   *)
(***************************************************************************)
\* the plan types the handler found missing when it ran its SELECTs
MissingPlans == {pt \in DefaultPlanTypes : planRows[pt] = 0}

\* the module names the handler found missing
MissingModules == DEFAULT_MODULES \ moduleRows

\* a seeding that creates the plans and no module definition
InitializeDefaultDataPlansOnly(w) ==
  /\ wk[w].pc = "idle"
  /\ planRows' = [pt \in DefaultPlanTypes |->
                    IF pt \in MissingPlans THEN planRows[pt] + 1 ELSE planRows[pt]]
  /\ Return(w, [IdleWorker EXCEPT !.op = "initialize_default_data"], "ok")
  /\ UNCHANGED <<moduleRows, tenants, nextId, users, roles, history, schemas, today,
               usage_logs, gateVars, routerVars>>

\* initialize_default_data with no other seeding under way: SELECTs, adds and
\* commit in one go
InitializeDefaultData(w) ==
  /\ wk[w].pc = "idle"
  /\ moduleRows' = moduleRows \cup MissingModules
  /\ planRows' = [pt \in DefaultPlanTypes |->
                    IF pt \in MissingPlans THEN planRows[pt] + 1 ELSE planRows[pt]]
  /\ Return(w, [IdleWorker EXCEPT !.op = "initialize_default_data"], "ok")
  /\ UNCHANGED <<tenants, nextId, users, roles, history, schemas, today, usage_logs,
               gateVars, routerVars>>

\* the order in which the two loops of initialize_default_data go through
\* DEFAULT_MODULES and DEFAULT_PLANS
DefaultModuleList == <<"core", "employees", "departments", "leave", "attendance",
                       "payroll", "performance", "recruitment", "training",
                       "documents">>
DefaultPlanList == <<"free", "basic", "professional", "enterprise">>

\* initialize_default_data, one await at a time: the session is opened
InitializeDefaultDataBegin(w) ==
  /\ wk[w].pc = "idle"
  /\ Goto(w, [IdleWorker EXCEPT !.op = "initialize_default_data",
                                 !.pc = "seed_select", !.i = 1])
  /\ UNCHANGED <<planRows, moduleRows, tenants, nextId, users, roles, history, schemas, today,
               usage_logs, gateVars, routerVars>>

\* one SELECT of the two loops: it sees the committed rows; a missing item
\* is added to the session, which does not flush before the commit
\* (autoflush=False); scalar_one_or_none raises on more than one row
InitializeDefaultDataSelect(w) ==
  /\ wk[w].pc = "seed_select"
  /\ LET i == wk[w].i
         nm == Len(DefaultModuleList)
         total == nm + Len(DefaultPlanList)
         next == IF i = total THEN "seed_commit" ELSE "seed_select"
     IN  IF i <= nm
         THEN /\ Goto(w, [wk[w] EXCEPT
                            !.pc = next, !.i = i + 1,
                            !.new_modules =
                               IF DefaultModuleList[i] \in moduleRows THEN @
                               ELSE @ \cup {DefaultModuleList[i]}])
              /\ UNCHANGED <<tenants, users, roles, history>>
         ELSE IF planRows[DefaultPlanList[i - nm]] > 1
         THEN Rollback(w, "error")
         ELSE /\ Goto(w, [wk[w] EXCEPT
                            !.pc = next, !.i = i + 1,
                            !.new_plans =
                               IF planRows[DefaultPlanList[i - nm]] > 0 THEN @
                               ELSE @ \cup {DefaultPlanList[i - nm]}])
              /\ UNCHANGED <<tenants, users, roles, history>>
  /\ UNCHANGED <<planRows, moduleRows, nextId, schemas, today, usage_logs,
               gateVars, routerVars>>

\* a commit into a module_definitions table without the unique index on name
InitializeDefaultDataCommitNoUniqueName(w) ==
  /\ wk[w].pc = "seed_commit"
  /\ moduleRows' = moduleRows \cup wk[w].new_modules
  /\ planRows' = [pt \in DefaultPlanTypes |->
                    IF pt \in wk[w].new_plans THEN planRows[pt] + 1
                    ELSE planRows[pt]]
  /\ Finish(w, "ok")
  /\ UNCHANGED <<tenants, users, roles, history>>
  /\ UNCHANGED <<nextId, schemas, today, usage_logs, gateVars, routerVars>>

\* session.commit(): the INSERTs are flushed and committed together; the
\* unique index on ModuleDefinition.name refuses a name that has been
\* committed since the SELECT, and the except block rolls everything back.
\* SubscriptionPlan.plan_type has no unique index.
InitializeDefaultDataCommit(w) ==
  /\ wk[w].pc = "seed_commit"
  /\ IF wk[w].new_modules \cap moduleRows # {}
     THEN /\ Rollback(w, "integrity_error")
          /\ UNCHANGED <<planRows, moduleRows>>
     ELSE /\ moduleRows' = moduleRows \cup wk[w].new_modules
          /\ planRows' = [pt \in DefaultPlanTypes |->
                            IF pt \in wk[w].new_plans THEN planRows[pt] + 1
                            ELSE planRows[pt]]
          /\ Finish(w, "ok")
          /\ UNCHANGED <<tenants, users, roles, history>>
  /\ UNCHANGED <<nextId, schemas, today, usage_logs, gateVars, routerVars>>

(***************************************************************************)
(* TenantService.create_tenant                                             *)
(***************************************************************************)
\* Tenant(...) as create_tenant builds it, trial dates included
NewTenant(slug, pt) ==
  LET plan == PlanData(pt)
      trial == plan.trial_days > 0
  IN  [slug |-> slug, name |-> "Acme", plan |-> pt,
       status |-> IF trial THEN "trial" ELSE "pending",
       max_users |-> plan.max_users,
       max_employees |-> plan.max_employees,
       max_storage_gb |-> plan.max_storage_gb,
       enabled_modules |-> plan.enabled_modules,
       feature_flags |-> plan_feature_flags(plan),
       trial_ends_at |-> NoDate,
       is_deleted |-> FALSE,
       trial_end_date |-> IF trial THEN today + plan.trial_days ELSE NoDate]

\* a create_tenant whose INSERT meets no unique index on the slug
CreateTenantBeginNoUniqueSlug(w, slug, pt, admin) ==
  /\ wk[w].pc = "idle"
  /\ LET call == [IdleWorker EXCEPT !.op = "create_tenant", !.slug = slug,
                                    !.plan_type = pt, !.admin = admin]
         plan == _get_subscription_plan(pt)
     IN  IF plan = "none"
         THEN /\ Return(w, call, "invalid_plan")
              /\ UNCHANGED nextId
         ELSE IF plan = "many"
         THEN /\ Return(w, call, "error")
              /\ UNCHANGED nextId
         ELSE /\ nextId <= MaxTenants
              /\ nextId' = nextId + 1
              /\ Goto(w, [call EXCEPT !.pc = "schema_exec", !.tid = nextId,
                                       !.obj = <<NewTenant(slug, pt)>>])
  /\ UNCHANGED <<planRows, moduleRows, tenants, users, roles, history, schemas, today, usage_logs,
               gateVars, routerVars>>

\* plan lookup, Tenant(...), session.add, session.flush
CreateTenantBegin(w, slug, pt, admin) ==
  /\ wk[w].pc = "idle"
  /\ LET call == [IdleWorker EXCEPT !.op = "create_tenant", !.slug = slug,
                                    !.plan_type = pt, !.admin = admin]
         plan == _get_subscription_plan(pt)
     IN  IF plan = "none"
         THEN /\ Return(w, call, "invalid_plan")
              /\ UNCHANGED nextId
         ELSE IF plan = "many"
         THEN /\ Return(w, call, "error")
              /\ UNCHANGED nextId
         ELSE IF \E t \in DOMAIN tenants : tenants[t].slug = slug
         THEN /\ Return(w, call, "duplicate_slug")
              /\ UNCHANGED nextId
         ELSE /\ \A v \in Workers \ {w} : ~HoldsSlug(v, slug)
              /\ nextId <= MaxTenants
              /\ nextId' = nextId + 1
              /\ Goto(w, [call EXCEPT !.pc = "schema_exec", !.tid = nextId,
                                       !.obj = <<NewTenant(slug, pt)>>])
  /\ UNCHANGED <<planRows, moduleRows, tenants, users, roles, history, schemas, today, usage_logs,
               gateVars, routerVars>>

\* _create_admin_user and _create_default_roles: the user INSERT is flushed
CreateTenantAdmin(w) ==
  /\ wk[w].pc = "admin"
  /\ IF \E u \in users : u.username = wk[w].admin
     THEN Rollback(w, "admin_conflict")
     ELSE /\ \A v \in Workers \ {w} : ~HoldsAdmin(v, wk[w].admin)
          /\ Goto(w, [wk[w] EXCEPT !.pc = "commit"])
          /\ UNCHANGED <<tenants, users, roles, history>>
  /\ UNCHANGED <<planRows, moduleRows, nextId, schemas, today, usage_logs,
               gateVars, routerVars>>

\* session.commit() of create_tenant, or the rollback when it raises
CreateTenantCommit(w) ==
  /\ wk[w].pc = "commit"
  /\ \E fault \in BOOLEAN :
       IF fault
       THEN Rollback(w, "commit_failed")
       ELSE /\ tenants' = tenants @@ (wk[w].tid :> Columns(wk[w].obj[1]))
            /\ users' = users \cup {[username |-> wk[w].admin, tenant_id |-> wk[w].tid]}
            /\ roles' = roles \cup {[name |-> r, tenant_id |-> wk[w].tid] : r \in RoleNames}
            /\ UNCHANGED history
            /\ Finish(w, "ok")
  /\ UNCHANGED <<planRows, moduleRows, nextId, schemas, today, usage_logs,
               gateVars, routerVars>>

(***************************************************************************)
(* TenantDatabaseManager.create_tenant_schema                              *)
(***************************************************************************)
\* CREATE SCHEMA "<slug>" without the IF NOT EXISTS clause
CreateSchemaPlain(existing, slug) ==
  [create |-> slug \notin existing, error |-> slug \in existing]

\* CREATE SCHEMA IF NOT EXISTS "<slug>": the schema to create, if any, and
\* whether the statement raises
CreateSchemaIfNotExists(existing, slug) ==
  [create |-> slug \notin existing, error |-> FALSE]

\* create_tenant_schema called on its own (the provision endpoint)
CreateTenantSchemaBegin(w, slug) ==
  /\ wk[w].pc = "idle"
  /\ Goto(w, [IdleWorker EXCEPT !.op = "create_tenant_schema", !.slug = slug,
                                 !.pc = "schema_exec"])
  /\ UNCHANGED <<planRows, moduleRows, tenants, nextId, users, roles, history, schemas, today, usage_logs,
               gateVars, routerVars>>

\* the pg_namespace row of a schema that a transaction has inserted and not
\* yet committed
HoldsSchema(v, slug) ==
  /\ wk[v].pc = "schema_commit"
  /\ wk[v].slug = slug
  /\ slug \notin schemas

\* session.execute(CREATE SCHEMA IF NOT EXISTS ...), which may fail.  The
\* statement looks for the schema among the committed ones; when it inserts
\* the name while another transaction holds the same name uncommitted, the
\* unique index of pg_namespace makes it wait for that transaction.
SchemaExec(w) ==
  /\ wk[w].pc = "schema_exec"
  /\ \E fault \in BOOLEAN :
       LET stmt == CreateSchemaIfNotExists(schemas, wk[w].slug)
           held == \E v \in Workers \ {w} : HoldsSchema(v, wk[w].slug)
       IN  IF fault THEN Rollback(w, "partition_failed")
           ELSE IF stmt.error THEN Rollback(w, "schema_exists")
           ELSE /\ Goto(w, [wk[w] EXCEPT !.pc = IF stmt.create /\ held
                                                 THEN "schema_blocked"
                                                 ELSE "schema_commit"])
                /\ UNCHANGED <<tenants, users, roles, history>>
  /\ UNCHANGED <<planRows, moduleRows, nextId, schemas, today, usage_logs,
               gateVars, routerVars>>

\* the transaction waited for has ended: its commit makes the waiting INSERT
\* a unique violation, which session.execute raises; after its rollback the
\* statement goes through
SchemaUnblocked(w) ==
  /\ wk[w].pc = "schema_blocked"
  /\ \A v \in Workers \ {w} : ~HoldsSchema(v, wk[w].slug)
  /\ IF wk[w].slug \in schemas
     THEN Rollback(w, "duplicate_schema")
     ELSE /\ Goto(w, [wk[w] EXCEPT !.pc = "schema_commit"])
          /\ UNCHANGED <<tenants, users, roles, history>>
  /\ UNCHANGED <<planRows, moduleRows, nextId, schemas, today, usage_logs,
               gateVars, routerVars>>

\* a create_tenant_schema whose transaction is never committed: the schema
\* is gone when its session closes
SchemaCommitNotDurable(w) ==
  /\ wk[w].pc = "schema_commit"
  /\ schemas' = schemas
  /\ IF wk[w].op = "create_tenant"
     THEN Goto(w, [wk[w] EXCEPT !.pc = "admin"])
     ELSE Finish(w, "ok")
  /\ UNCHANGED <<planRows, moduleRows, tenants, nextId, users, roles, history, today, usage_logs,
               gateVars, routerVars>>

\* session.commit() of create_tenant_schema
SchemaCommit(w) ==
  /\ wk[w].pc = "schema_commit"
  /\ schemas' = schemas \cup {wk[w].slug}
  /\ IF wk[w].op = "create_tenant"
     THEN Goto(w, [wk[w] EXCEPT !.pc = "admin"])
     ELSE Finish(w, "ok")
  /\ UNCHANGED <<planRows, moduleRows, tenants, nextId, users, roles, history, today, usage_logs,
               gateVars, routerVars>>

(***************************************************************************)
(* TenantService.update_tenant_subscription, suspend_tenant,               *)
(* activate_tenant                                                         *)
(***************************************************************************)
\* a Tenant object as the session loads it
Loaded(row) == [c \in TenantColumns \cup {"trial_end_date"} |->
                  IF c = "trial_end_date" THEN NoDate ELSE row[c]]

\* a plan change that forgets the module list
ApplyPlanKeepsModules(obj, pt) ==
  LET plan == PlanData(pt)
  IN  [obj EXCEPT !.plan = pt,
                  !.max_users = plan.max_users,
                  !.max_employees = plan.max_employees,
                  !.max_storage_gb = plan.max_storage_gb]

\* the assignments update_tenant_subscription makes on the loaded tenant
ApplyPlan(obj, pt) ==
  LET plan == PlanData(pt)
      base == [obj EXCEPT !.plan = pt,
                          !.max_users = plan.max_users,
                          !.max_employees = plan.max_employees,
                          !.max_storage_gb = plan.max_storage_gb,
                          !.enabled_modules = plan.enabled_modules,
                          !.feature_flags = plan_feature_flags(plan)]
  IN  IF plan.trial_days > 0 /\ obj.status # "trial"
      THEN [base EXCEPT !.trial_end_date = today + plan.trial_days,
                        !.status = "trial"]
      ELSE base

\* history rows written or about to be written
PendingHistory == Cardinality({v \in Workers : wk[v].op = "update_subscription"
                                               /\ wk[v].pc = "row_commit"})

UpdateSubscriptionLoad(w, tid, pt) ==
  /\ wk[w].pc = "idle"
  /\ LET call == [IdleWorker EXCEPT !.op = "update_subscription", !.tid = tid,
                                    !.plan_type = pt]
         tenant == _get_tenant_by_id(tid)
         plan == _get_subscription_plan(pt)
     IN  IF tenant = <<>>
         THEN Return(w, call, "not_found")
         ELSE IF plan = "none"
         THEN Return(w, call, "invalid_plan")
         ELSE IF plan = "many"
         THEN Return(w, call, "error")
         ELSE /\ Len(history) + PendingHistory < MaxHistory
              /\ Goto(w, [call EXCEPT !.pc = "row_commit",
                                       !.slug = tenant[1].slug,
                                       !.loaded = <<Loaded(tenant[1])>>,
                                       !.obj = <<ApplyPlan(Loaded(tenant[1]), pt)>>])
  /\ UNCHANGED <<planRows, moduleRows, tenants, nextId, users, roles, history, schemas, today, usage_logs,
               gateVars, routerVars>>

\* suspend_tenant and activate_tenant up to their commit
SetStatusLoad(w, tid, op, status) ==
  /\ wk[w].pc = "idle"
  /\ LET call == [IdleWorker EXCEPT !.op = op, !.tid = tid]
         tenant == _get_tenant_by_id(tid)
     IN  IF tenant = <<>>
         THEN Return(w, call, "not_found")
         ELSE Goto(w, [call EXCEPT !.pc = "row_commit",
                                   !.slug = tenant[1].slug,
                                   !.loaded = <<Loaded(tenant[1])>>,
                                   !.obj = <<[Loaded(tenant[1]) EXCEPT !.status = status]>>])
  /\ UNCHANGED <<planRows, moduleRows, tenants, nextId, users, roles, history, schemas, today, usage_logs,
               gateVars, routerVars>>

\* a suspension that also empties the module list of the tenant
SuspendTenantRevokesModules(w, tid) ==
  /\ wk[w].pc = "idle"
  /\ LET call == [IdleWorker EXCEPT !.op = "suspend", !.tid = tid]
         tenant == _get_tenant_by_id(tid)
     IN  IF tenant = <<>>
         THEN Return(w, call, "not_found")
         ELSE Goto(w, [call EXCEPT !.pc = "row_commit",
                                   !.slug = tenant[1].slug,
                                   !.loaded = <<Loaded(tenant[1])>>,
                                   !.obj = <<[Loaded(tenant[1]) EXCEPT
                                                !.status = "suspended",
                                                !.enabled_modules = {}]>>])
  /\ UNCHANGED <<planRows, moduleRows, tenants, nextId, users, roles, history, schemas, today,
               usage_logs, gateVars, routerVars>>

SuspendTenantLoad(w, tid) == SetStatusLoad(w, tid, "suspend", "suspended")

\* an activation after which the modules have to be granted anew
ActivateTenantRevokesModules(w, tid) ==
  /\ wk[w].pc = "idle"
  /\ LET call == [IdleWorker EXCEPT !.op = "activate", !.tid = tid]
         tenant == _get_tenant_by_id(tid)
     IN  IF tenant = <<>>
         THEN Return(w, call, "not_found")
         ELSE Goto(w, [call EXCEPT !.pc = "row_commit",
                                   !.slug = tenant[1].slug,
                                   !.loaded = <<Loaded(tenant[1])>>,
                                   !.obj = <<[Loaded(tenant[1]) EXCEPT
                                                !.status = "active",
                                                !.enabled_modules = {}]>>])
  /\ UNCHANGED <<planRows, moduleRows, tenants, nextId, users, roles, history, schemas, today,
               usage_logs, gateVars, routerVars>>

ActivateTenantLoad(w, tid) == SetStatusLoad(w, tid, "activate", "active")

\* a commit whose history row takes old_plan from the tenant object after the
\* new plan was assigned to it
RowCommitOldPlanAfter(w) ==
  /\ wk[w].pc = "row_commit"
  /\ \E fault \in BOOLEAN :
       IF fault
       THEN Rollback(w, "commit_failed")
       ELSE /\ UNCHANGED <<users, roles>>
            /\ tenants' = [tenants EXCEPT ![wk[w].tid] =
                             FlushUpdate(@, wk[w].loaded[1], wk[w].obj[1])]
            /\ history' = IF wk[w].op = "update_subscription"
                          THEN Append(history, [tenant_id |-> wk[w].tid,
                                                old_plan |-> wk[w].obj[1].plan,
                                                new_plan |-> wk[w].plan_type])
                          ELSE history
            /\ Finish(w, "ok")
  /\ UNCHANGED <<planRows, moduleRows, nextId, schemas, today, usage_logs,
               gateVars, routerVars>>

\* session.commit() of the handlers that change a loaded tenant, or the
\* rollback when it raises
RowCommit(w) ==
  /\ wk[w].pc = "row_commit"
  /\ \E fault \in BOOLEAN :
       IF fault
       THEN Rollback(w, "commit_failed")
       ELSE /\ UNCHANGED <<users, roles>>
            /\ tenants' = [tenants EXCEPT ![wk[w].tid] =
                             FlushUpdate(@, wk[w].loaded[1], wk[w].obj[1])]
            /\ history' = IF wk[w].op = "update_subscription"
                          THEN Append(history, [tenant_id |-> wk[w].tid,
                                                old_plan |-> wk[w].loaded[1].plan,
                                                new_plan |-> wk[w].plan_type])
                          ELSE history
            /\ Finish(w, "ok")
  /\ UNCHANGED <<planRows, moduleRows, nextId, schemas, today, usage_logs,
               gateVars, routerVars>>

\* the calendar day changes
Tick ==
  /\ today < MaxDay
  /\ today' = today + 1
  /\ UNCHANGED <<planRows, moduleRows, tenants, nextId, users, roles, history, schemas, wk, last,
               usage_logs, gateVars, routerVars>>

(***************************************************************************)
(* Handlers that read a tenant or write next to it                         *)
(***************************************************************************)
\* PUT /tenants/{id} up to its commit: TenantUpdate carries profile fields
\* only, here the name
UpdateTenantLoad(w, tid, name) ==
  /\ wk[w].pc = "idle"
  /\ LET call == [IdleWorker EXCEPT !.op = "update_tenant", !.tid = tid]
         tenant == _get_tenant_by_id(tid)
     IN  IF tenant = <<>>
         THEN Return(w, call, "not_found")
         ELSE Goto(w, [call EXCEPT !.pc = "row_commit",
                                   !.slug = tenant[1].slug,
                                   !.loaded = <<Loaded(tenant[1])>>,
                                   !.obj = <<[Loaded(tenant[1]) EXCEPT !.name = name]>>])
  /\ UNCHANGED <<planRows, moduleRows, tenants, nextId, users, roles, history, schemas, today,
               usage_logs, gateVars, routerVars>>

\* DELETE /tenants/{id} up to its commit: soft_delete() marks the loaded row
DeleteTenantLoad(w, tid) ==
  /\ wk[w].pc = "idle"
  /\ LET call == [IdleWorker EXCEPT !.op = "delete_tenant", !.tid = tid]
         tenant == _get_tenant_by_id(tid)
     IN  IF tenant = <<>>
         THEN Return(w, call, "not_found")
         ELSE Goto(w, [call EXCEPT !.pc = "row_commit",
                                   !.slug = tenant[1].slug,
                                   !.loaded = <<Loaded(tenant[1])>>,
                                   !.obj = <<[Loaded(tenant[1]) EXCEPT
                                                !.is_deleted = TRUE]>>])
  /\ UNCHANGED <<planRows, moduleRows, tenants, nextId, users, roles, history, schemas, today,
               usage_logs, gateVars, routerVars>>

\* POST /tenants/{id}/restore up to its commit: restore() clears the mark
RestoreTenantLoad(w, tid) ==
  /\ wk[w].pc = "idle"
  /\ LET call == [IdleWorker EXCEPT !.op = "restore_tenant", !.tid = tid]
         tenant == _get_tenant_by_id(tid)
     IN  IF tenant = <<>>
         THEN Return(w, call, "not_found")
         ELSE Goto(w, [call EXCEPT !.pc = "row_commit",
                                   !.slug = tenant[1].slug,
                                   !.loaded = <<Loaded(tenant[1])>>,
                                   !.obj = <<[Loaded(tenant[1]) EXCEPT
                                                !.is_deleted = FALSE]>>])
  /\ UNCHANGED <<planRows, moduleRows, tenants, nextId, users, roles, history, schemas, today,
               usage_logs, gateVars, routerVars>>

\* TenantService.log_usage: one INSERT into tenant_usage_logs and its commit;
\* the foreign key refuses a tenant id that has no row
LogUsage(w, tid) ==
  /\ wk[w].pc = "idle"
  /\ LET call == [IdleWorker EXCEPT !.op = "log_usage", !.tid = tid]
     IN  IF tid \notin DOMAIN tenants
         THEN /\ Return(w, call, "error")
              /\ UNCHANGED usage_logs
         ELSE /\ Len(usage_logs) < MaxUsageLogs
              /\ usage_logs' = Append(usage_logs, [tenant_id |-> tid,
                                                   log_date |-> today])
              /\ Return(w, call, "ok")
  /\ UNCHANGED <<planRows, moduleRows, tenants, nextId, users, roles, history, schemas, today,
               gateVars, routerVars>>

\* TenantService.get_tenant_usage: reads only
GetTenantUsage(w, tid) ==
  /\ wk[w].pc = "idle"
  /\ Return(w, [IdleWorker EXCEPT !.op = "get_tenant_usage", !.tid = tid],
            IF _get_tenant_by_id(tid) = <<>> THEN "not_found" ELSE "ok")
  /\ UNCHANGED <<planRows, moduleRows, tenants, nextId, users, roles, history, schemas, today,
               usage_logs, gateVars, routerVars>>

\* TenantService.check_module_access called as a handler: reads only
CheckModuleAccess(w, tid, module) ==
  /\ wk[w].pc = "idle"
  /\ Return(w, [IdleWorker EXCEPT !.op = "check_module_access", !.tid = tid],
            IF check_module_access(tid, module) THEN "granted" ELSE "refused")
  /\ UNCHANGED <<planRows, moduleRows, tenants, nextId, users, roles, history, schemas, today,
               usage_logs, gateVars, routerVars>>

(***************************************************************************)
(* The lifecycle service under concurrent requests                         *)
(***************************************************************************)
TenantIds == 1..MaxTenants

LifecycleStep(w) ==
  \/ InitializeDefaultData(w)
  \/ \E slug \in Slugs, pt \in PlanInputs, admin \in AdminNames :
       CreateTenantBegin(w, slug, pt, admin)
  \/ SchemaExec(w)
  \/ SchemaCommit(w)
  \/ CreateTenantAdmin(w)
  \/ CreateTenantCommit(w)
  \/ \E tid \in TenantIds, pt \in PlanInputs : UpdateSubscriptionLoad(w, tid, pt)
  \/ \E tid \in TenantIds : SuspendTenantLoad(w, tid)
  \/ \E tid \in TenantIds : ActivateTenantLoad(w, tid)
  \/ RowCommit(w)

\* the management plane serving one request at a time
FirstWorker == CHOOSE w \in Workers : \A v \in Workers : w <= v

Next ==
  \/ LifecycleStep(FirstWorker)
  \/ \E slug \in Slugs : CreateTenantSchemaBegin(FirstWorker, slug)

Spec == Init /\ [][Next]_vars

(***************************************************************************)
(* Module access gate: ModuleAccessMiddleware, and the login that issues   *)
(* the tokens it reads                                                     *)
(***************************************************************************)
\* str.startswith; a path is the sequence of its segments and separators
StartsWith(s, prefix) ==
  /\ Len(prefix) <= Len(s)
  /\ SubSeq(s, 1, Len(prefix)) = prefix

ApiV1 == <<"/", "api", "/", "v1", "/">>

\* request.url.path of the requests sent
Paths == {ApiV1 \o <<"employees", "/", "x">>,
          ApiV1 \o <<"payroll">>,
          ApiV1 \o <<"training">>,
          ApiV1 \o <<"auth", "/", "login">>,
          ApiV1 \o <<"auth", "/", "me">>,
          ApiV1 \o <<"tenants", "/", "1", "/", "status">>,
          <<"/", "health">>}

skip_paths == {ApiV1 \o <<"auth", "/", "login">>,
               ApiV1 \o <<"auth", "/", "refresh">>,
               ApiV1 \o <<"auth", "/", "logout">>,
               ApiV1 \o <<"tenants", "/">>,
               <<"/", "docs">>,
               <<"/", "openapi.json">>,
               <<"/", "health">>}

_requires_module_check(path) ==
  /\ StartsWith(path, ApiV1)
  /\ ~\E skip \in skip_paths : StartsWith(path, skip)

\* a mapping that also sends the authentication endpoints to a module
module_mapping_with_auth ==
  << <<ApiV1 \o <<"auth">>, "core">>,
     <<ApiV1 \o <<"employees">>, "employees">>,
     <<ApiV1 \o <<"payroll">>, "payroll">> >>

\* the dict of _check_module_access, in its insertion order
module_mapping ==
  << <<ApiV1 \o <<"employees">>, "employees">>,
     <<ApiV1 \o <<"departments">>, "departments">>,
     <<ApiV1 \o <<"leave">>, "leave">>,
     <<ApiV1 \o <<"payroll">>, "payroll">>,
     <<ApiV1 \o <<"performance">>, "performance">>,
     <<ApiV1 \o <<"recruitment">>, "recruitment">>,
     <<ApiV1 \o <<"attendance">>, "attendance">>,
     <<ApiV1 \o <<"documents">>, "documents">>,
     <<ApiV1 \o <<"users">>, "users">> >>

\* the for loop of _check_module_access: the first prefix that matches
required_module(path) ==
  LET hits == {i \in DOMAIN module_mapping : StartsWith(path, module_mapping[i][1])}
  IN  IF hits = {} THEN "none"
      ELSE module_mapping[CHOOSE i \in hits : \A j \in hits : i <= j][2]

\* int(str) of Python on a string of characters: decimal digits only
DigitValue == ("0" :> 0) @@ ("1" :> 1) @@ ("2" :> 2) @@ ("3" :> 3)

RECURSIVE DecimalValue(_)
DecimalValue(chars) ==
  IF chars = <<>> THEN 0
  ELSE 10 * DecimalValue(SubSeq(chars, 1, Len(chars) - 1))
       + DigitValue[chars[Len(chars)]]

ParseInt(chars) ==
  IF chars # <<>> /\ \A i \in DOMAIN chars : chars[i] \in DOMAIN DigitValue
  THEN [ok |-> TRUE, val |-> DecimalValue(chars)]
  ELSE [ok |-> FALSE, val |-> 0]

\* values of the X-Tenant-ID header; <<>> is a request without it
HeaderValues == {<<>>, <<"0">>, <<"1">>, <<"x">>}

\* create_access_token(tenant_id = tenant.slug): the payload, signed
create_access_token(slug) == [signed |-> TRUE, tenant_id |-> slug]

\* Authorization headers: none, or Bearer with a token login issued, or with
\* one nobody signed
NoAuthorization == [scheme |-> "none", token |-> <<>>]

AuthorizationValues ==
  {NoAuthorization}
    \cup {[scheme |-> "Bearer", token |-> <<create_access_token(s)>>] : s \in tokens}
    \cup {[scheme |-> "Bearer",
           token |-> <<[signed |-> FALSE, tenant_id |-> <<"1">>]>>]}

\* HTTP requests with their headers, and WebSocket handshakes
Requests ==
  [scope : {"http"}, path : Paths, x_tenant_id : HeaderValues,
   authorization : AuthorizationValues]
    \cup [scope : {"websocket"}, path : Paths, x_tenant_id : {<<>>},
          authorization : {NoAuthorization}]

\* security_manager.verify_token: the payload, or <<>> when it raises
verify_token(token) ==
  IF token.signed /\ token.tenant_id \in tokens THEN <<token>> ELSE <<>>

\* the tenant claim of the valid token a request carries, <<>> without one
TokenClaim(req) ==
  IF req.authorization.scheme = "Bearer"
     /\ verify_token(req.authorization.token[1]) # <<>>
  THEN req.authorization.token[1].tenant_id
  ELSE <<>>

\* tid 0 with source "none" is the None the method returns
_extract_tenant_id(req) ==
  LET header == ParseInt(req.x_tenant_id)
      claim == TokenClaim(req)
      payload == ParseInt(claim)
  IN  IF req.x_tenant_id # <<>> /\ header.ok
      THEN [tid |-> header.val, source |-> "header"]
      ELSE IF claim # <<>> /\ payload.ok
      THEN [tid |-> payload.val, source |-> "token"]
      ELSE [tid |-> 0, source |-> "none"]

HTTP_403_FORBIDDEN == 403

HTTP_400_BAD_REQUEST == 400

\* a middleware that answers 403 when the access check raises
DispatchFailsClosed(req, fault) ==
  LET module == required_module(req.path)
      who == _extract_tenant_id(req)
      seen == [op |-> "middleware", scope |-> req.scope, module |-> module,
               claim |-> TokenClaim(req), source |-> "none", tid |-> 0,
               chk |-> "skipped", res |-> "forwarded",
               status_code |-> 0, detail |-> <<>>, path |-> req.path,
               app_calls |-> 1]
  IN  IF req.scope # "http" \/ ~_requires_module_check(req.path)
      THEN seen
      ELSE IF who.tid = 0
      THEN [seen EXCEPT !.source = who.source]
      ELSE IF module = "none"
      THEN [seen EXCEPT !.source = who.source, !.tid = who.tid]
      ELSE IF fault
      THEN [seen EXCEPT !.source = who.source, !.tid = who.tid, !.chk = "raised",
                        !.res = "denied", !.status_code = HTTP_403_FORBIDDEN,
                        !.detail = <<"Module access denied">>,
                        !.app_calls = 0]
      ELSE IF check_module_access(who.tid, module)
      THEN [seen EXCEPT !.source = who.source, !.tid = who.tid, !.chk = "allowed"]
      ELSE [seen EXCEPT !.source = who.source, !.tid = who.tid, !.chk = "refused",
                        !.res = "denied", !.status_code = HTTP_403_FORBIDDEN,
                        !.detail = <<"Module access denied">>,
                        !.app_calls = 0]

\* ModuleAccessMiddleware.__call__ on one request: what it resolved, whether
\* the access check ran (chk), whether the request went on to self.app (res)
\* and how many times self.app was awaited (app_calls).  fault:
\* TenantService.check_module_access raises.
Dispatch(req, fault) ==
  LET module == required_module(req.path)
      who == _extract_tenant_id(req)
      seen == [op |-> "middleware", scope |-> req.scope, module |-> module,
               claim |-> TokenClaim(req), source |-> "none", tid |-> 0,
               chk |-> "skipped", res |-> "forwarded",
               status_code |-> 0, detail |-> <<>>, path |-> req.path,
               app_calls |-> 1]
  IN  IF req.scope # "http" \/ ~_requires_module_check(req.path)
      THEN seen
      ELSE IF who.tid = 0
      THEN [seen EXCEPT !.source = who.source]
      ELSE IF module = "none"
      THEN [seen EXCEPT !.source = who.source, !.tid = who.tid]
      ELSE IF fault
      THEN [seen EXCEPT !.source = who.source, !.tid = who.tid, !.chk = "raised"]
      ELSE IF check_module_access(who.tid, module)
      THEN [seen EXCEPT !.source = who.source, !.tid = who.tid, !.chk = "allowed"]
      ELSE [seen EXCEPT !.source = who.source, !.tid = who.tid, !.chk = "refused",
                        !.res = "denied", !.status_code = HTTP_403_FORBIDDEN,
                        !.detail = <<"Module access denied">>,
                        !.app_calls = 0]

\* the requests on which the middleware reaches the access check
ReachesCheck(req) ==
  /\ req.scope = "http"
  /\ _requires_module_check(req.path)
  /\ _extract_tenant_id(req).tid # 0
  /\ required_module(req.path) # "none"

MiddlewareCall(req) ==
  /\ \E fault \in (IF ReachesCheck(req) THEN BOOLEAN ELSE {FALSE}) :
       gate' = Dispatch(req, fault)
  /\ UNCHANGED <<planRows, moduleRows, tenants, nextId, users, roles, history, schemas, today, usage_logs,
               wk, last, tokens, routerVars>>

\* the modules the require_<module>_module wrappers ask for
DependencyModules == {"employees", "departments", "leave", "payroll",
                      "performance", "recruitment", "attendance", "documents",
                      "training", "benefits"}

\* module_access_checker of require_module_access(module_name) for a caller
\* whose token carries tenant_id (<<>>: the claim is missing).  The claim is
\* the slug login put there, passed as it is to check_module_access, whose
\* query compares it with the integer id: the driver rejects the string
\* (strict, the call raises) or the database reads it as a number.
module_access_checker(module_name, tenant_id, strict) ==
  LET id == ParseInt(tenant_id)
      seen == [op |-> "dependency", scope |-> "http", module |-> module_name,
               claim |-> tenant_id, source |-> "token", tid |-> 0,
               chk |-> "skipped", res |-> "forwarded",
               status_code |-> 0, detail |-> <<>>, path |-> <<>>,
               app_calls |-> 0]
  IN  IF tenant_id = <<>>
      THEN [seen EXCEPT !.res = "bad_request",
                        !.status_code = HTTP_400_BAD_REQUEST,
                        !.detail = <<"Tenant ID not found in user context">>]
      ELSE IF strict \/ ~id.ok
      THEN [seen EXCEPT !.chk = "raised", !.res = "error"]
      ELSE IF check_module_access(id.val, module_name)
      THEN [seen EXCEPT !.tid = id.val, !.chk = "allowed", !.app_calls = 1]
      ELSE [seen EXCEPT !.tid = id.val, !.chk = "refused", !.res = "denied",
                        !.status_code = HTTP_403_FORBIDDEN,
                        !.detail = <<"Access to ", module_name,
                                     " module is not included in your subscription plan">>]

\* a request to an endpoint guarded by Depends(require_<module>_module()),
\* sent with a token login issued
DependencyCall(module_name, slug) ==
  /\ slug \in tokens
  /\ \E strict \in BOOLEAN :
       gate' = module_access_checker(module_name, slug, strict)
  /\ UNCHANGED <<planRows, moduleRows, tenants, nextId, users, roles, history, schemas, today, usage_logs,
               wk, last, tokens, routerVars>>

\* POST /api/v1/auth/login with a password that verifies: the token is issued
\* when the user's tenant is_active, the request is refused otherwise
Login(username) ==
  /\ \E u \in users :
       /\ u.username = username
       /\ LET tenant == _get_tenant_by_id(u.tenant_id)
          IN  tokens' = IF tenant # <<>> /\ is_active(tenant[1])
                        THEN tokens \cup {tenant[1].slug}
                        ELSE tokens
  /\ UNCHANGED <<planRows, moduleRows, tenants, nextId, users, roles, history, schemas, today, usage_logs,
               wk, last, gate, routerVars>>

\* plans the tenants of the gate scenario are created with, and the admin
\* user each of them gets
GatePlans == {"free", "basic"}

GateAdmin(slug) == IF slug = <<"a">> THEN "root" ELSE "ops"

\* tenants being provisioned, one request at a time, next to logins and to
\* requests going through the middleware
NextGate ==
  \/ InitializeDefaultData(FirstWorker)
  \/ \E slug \in Slugs, pt \in GatePlans :
       CreateTenantBegin(FirstWorker, slug, pt, GateAdmin(slug))
  \/ SchemaExec(FirstWorker)
  \/ SchemaCommit(FirstWorker)
  \/ CreateTenantAdmin(FirstWorker)
  \/ CreateTenantCommit(FirstWorker)
  \/ \E username \in AdminNames : Login(username)
  \/ \E req \in Requests : MiddlewareCall(req)
  \/ \E module_name \in DependencyModules, slug \in Slugs :
       DependencyCall(module_name, slug)

SpecGate == Init /\ [][NextGate]_vars

(***************************************************************************)
(* Subscription changes over time: the management plane, one request at a  *)
(* time, with the readers and the calendar                                 *)
(***************************************************************************)
\* modules asked for: one every plan grants, one only some plans grant
ProbedModules == {"employees", "leave"}

\* the tenant whose subscription is followed
PlanSlug == <<"a">>

NextPlan ==
  \/ InitializeDefaultData(FirstWorker)
  \/ \E pt \in PlanInputs :
       CreateTenantBegin(FirstWorker, PlanSlug, pt, GateAdmin(PlanSlug))
  \/ SchemaExec(FirstWorker)
  \/ SchemaCommit(FirstWorker)
  \/ CreateTenantAdmin(FirstWorker)
  \/ CreateTenantCommit(FirstWorker)
  \/ \E tid \in TenantIds, pt \in PlanInputs :
       UpdateSubscriptionLoad(FirstWorker, tid, pt)
  \/ \E tid \in TenantIds : SuspendTenantLoad(FirstWorker, tid)
  \/ \E tid \in TenantIds : ActivateTenantLoad(FirstWorker, tid)
  \/ \E tid \in TenantIds, name \in TenantNames :
       UpdateTenantLoad(FirstWorker, tid, name)
  \/ RowCommit(FirstWorker)
  \/ \E tid \in TenantIds : LogUsage(FirstWorker, tid)
  \/ \E tid \in TenantIds : GetTenantUsage(FirstWorker, tid)
  \/ \E tid \in TenantIds, module \in ProbedModules :
       CheckModuleAccess(FirstWorker, tid, module)
  \/ Tick

SpecPlan == Init /\ [][NextPlan]_vars

\* one tenant that is created, suspended and activated while its requests go
\* through the middleware
NextGateStatus ==
  \/ InitializeDefaultData(FirstWorker)
  \/ \E pt \in GatePlans :
       CreateTenantBegin(FirstWorker, PlanSlug, pt, GateAdmin(PlanSlug))
  \/ SchemaExec(FirstWorker)
  \/ SchemaCommit(FirstWorker)
  \/ CreateTenantAdmin(FirstWorker)
  \/ CreateTenantCommit(FirstWorker)
  \/ \E tid \in TenantIds : SuspendTenantLoad(FirstWorker, tid)
  \/ \E tid \in TenantIds : ActivateTenantLoad(FirstWorker, tid)
  \/ RowCommit(FirstWorker)
  \/ \E username \in AdminNames : Login(username)
  \/ \E req \in Requests : MiddlewareCall(req)

SpecGateStatus == Init /\ [][NextGateStatus]_vars

(***************************************************************************)
(* Lifecycle calls on one tenant that overlap                              *)
(***************************************************************************)
NextRace ==
  \/ InitializeDefaultData(FirstWorker)
  \/ \E pt \in GatePlans :
       CreateTenantBegin(FirstWorker, PlanSlug, pt, GateAdmin(PlanSlug))
  \/ SchemaExec(FirstWorker)
  \/ SchemaCommit(FirstWorker)
  \/ CreateTenantAdmin(FirstWorker)
  \/ CreateTenantCommit(FirstWorker)
  \/ \E w \in Workers, tid \in TenantIds, pt \in GatePlans :
       UpdateSubscriptionLoad(w, tid, pt)
  \/ \E w \in Workers, tid \in TenantIds : SuspendTenantLoad(w, tid)
  \/ \E w \in Workers, tid \in TenantIds : ActivateTenantLoad(w, tid)
  \/ \E w \in Workers : RowCommit(w)

SpecRace == Init /\ [][NextRace]_vars

(***************************************************************************)
(* create_tenant_schema called by concurrent requests                      *)
(***************************************************************************)
PartitionStep(w) ==
  \/ \E slug \in Slugs : CreateTenantSchemaBegin(w, slug)
  \/ SchemaExec(w)
  \/ SchemaUnblocked(w)
  \/ SchemaCommit(w)

NextPartition == \E w \in Workers : PartitionStep(w)

SpecPartition == Init /\ [][NextPartition]_vars

(***************************************************************************)
(* create_tenant called by concurrent requests                             *)
(***************************************************************************)
CreateStep(w) ==
  \/ \E slug \in Slugs, pt \in GatePlans :
       CreateTenantBegin(w, slug, pt, GateAdmin(slug))
  \/ \E slug \in Slugs : CreateTenantSchemaBegin(w, slug)
  \/ SchemaExec(w)
  \/ SchemaUnblocked(w)
  \/ SchemaCommit(w)
  \/ CreateTenantAdmin(w)
  \/ CreateTenantCommit(w)

NextCreate ==
  \/ InitializeDefaultData(FirstWorker)
  \/ \E w \in Workers : CreateStep(w)

SpecCreate == Init /\ [][NextCreate]_vars

(***************************************************************************)
(* Partition router: TenantDatabaseManager                                 *)
(***************************************************************************)
\* a dict without one of its keys
Without(dict, key) == [k \in DOMAIN dict \ {key} |-> dict[k]]

\* a router call returns or raises
RouterReturn(w, op, slug, r) ==
  /\ rt' = [rt EXCEPT ![w] = IdleRouter]
  /\ last' = [op |-> op, res |-> r, tid |-> 0, slug |-> slug, was |-> "none"]

\* get_tenant_engine that calls create_async_engine without looking into
\* tenant_engines first
get_tenant_engine_unchecked(slug) ==
  [engines |-> Append(engines, [slug |-> slug, disposed |-> FALSE]),
   tenant_engines |-> (slug :> Len(engines) + 1)
                        @@ Without(tenant_engines, slug)]

\* get_tenant_engine: the engine list and the cache after the call; the
\* coroutine never suspends, create_async_engine is synchronous
get_tenant_engine(slug) ==
  IF slug \notin DOMAIN tenant_engines
  THEN [engines |-> Append(engines, [slug |-> slug, disposed |-> FALSE]),
        tenant_engines |-> tenant_engines @@ (slug :> Len(engines) + 1)]
  ELSE [engines |-> engines, tenant_engines |-> tenant_engines]

GetTenantEngine(w, slug) ==
  /\ rt[w].pc = "idle"
  /\ LET got == get_tenant_engine(slug)
     IN  /\ Len(got.engines) <= MaxEngines
         /\ engines' = got.engines
         /\ tenant_engines' = got.tenant_engines
  /\ RouterReturn(w, "get_tenant_engine", slug, "ok")
  /\ UNCHANGED <<planRows, moduleRows, tenants, nextId, users, roles, history, schemas, today, usage_logs,
               wk, gateVars, tenant_session_makers>>

\* a lookup of the session factory that takes another tenant's factory
\* when there is one
session_factory_of_any(makers, slug) ==
  IF \E s \in DOMAIN makers : s # slug
  THEN makers[CHOOSE s \in DOMAIN makers : s # slug]
  ELSE makers[slug]

\* session_factory = self.tenant_session_makers[tenant_id]: the engine the
\* factory is bound to
session_factory_of(makers, slug) == makers[slug]

\* get_tenant_session up to its first suspension: the factory is looked up or
\* built, the session opened and SET search_path sent
GetTenantSessionBegin(w, slug) ==
  /\ rt[w].pc = "idle"
  /\ LET got == IF slug \notin DOMAIN tenant_session_makers
                THEN get_tenant_engine(slug)
                ELSE [engines |-> engines, tenant_engines |-> tenant_engines]
         makers == IF slug \notin DOMAIN tenant_session_makers
                   THEN tenant_session_makers @@ (slug :> got.tenant_engines[slug])
                   ELSE tenant_session_makers
     IN  /\ Len(got.engines) <= MaxEngines
         /\ engines' = got.engines
         /\ tenant_engines' = got.tenant_engines
         /\ tenant_session_makers' = makers
         /\ rt' = [rt EXCEPT ![w] =
                     [pc |-> "set_path", op |-> "get_tenant_session", slug |-> slug,
                      sess |-> <<[engine |-> session_factory_of(makers, slug),
                                  search_path |-> <<>>]>>]]
  /\ UNCHANGED <<planRows, moduleRows, tenants, nextId, users, roles, history, schemas, today, usage_logs,
               wk, last, gateVars>>

\* SET search_path TO "<slug>", public completes and the session is yielded,
\* or the statement raises: rollback, close, raise
SetSearchPath(w) ==
  /\ rt[w].pc = "set_path"
  /\ \E fault \in BOOLEAN :
       IF fault
       THEN RouterReturn(w, "get_tenant_session", rt[w].slug, "error")
       ELSE /\ rt' = [rt EXCEPT ![w].pc = "yielded",
                                ![w].sess[1].search_path = rt[w].slug]
            /\ UNCHANGED last
  /\ UNCHANGED <<planRows, moduleRows, tenants, nextId, users, roles, history, schemas, today, usage_logs,
               wk, gateVars, tenant_engines, tenant_session_makers, engines>>

\* the caller is done with the session: finally: await session.close()
SessionClose(w) ==
  /\ rt[w].pc = "yielded"
  /\ RouterReturn(w, "get_tenant_session", rt[w].slug, "ok")
  /\ UNCHANGED <<planRows, moduleRows, tenants, nextId, users, roles, history, schemas, today, usage_logs,
               wk, gateVars, tenant_engines, tenant_session_makers, engines>>

\* close_tenant_connections up to await engine.dispose(); without a cached
\* engine the call runs to its end
CloseTenantConnectionsBegin(w, slug) ==
  /\ rt[w].pc = "idle"
  /\ IF slug \in DOMAIN tenant_engines
     THEN /\ engines' = [engines EXCEPT ![tenant_engines[slug]].disposed = TRUE]
          /\ rt' = [rt EXCEPT ![w] = [IdleRouter EXCEPT !.pc = "disposing",
                                        !.op = "close_tenant_connections",
                                        !.slug = slug]]
          /\ UNCHANGED <<last, tenant_session_makers>>
     ELSE /\ tenant_session_makers' = Without(tenant_session_makers, slug)
          /\ RouterReturn(w, "close_tenant_connections", slug, "ok")
          /\ UNCHANGED engines
  /\ UNCHANGED <<planRows, moduleRows, tenants, nextId, users, roles, history, schemas, today, usage_logs,
               wk, gateVars, tenant_engines>>

\* after dispose(): del self.tenant_engines[tenant_id], a KeyError when the
\* entry is gone, then the session factory is dropped
CloseTenantConnectionsFinish(w) ==
  /\ rt[w].pc = "disposing"
  /\ IF rt[w].slug \in DOMAIN tenant_engines
     THEN /\ tenant_engines' = Without(tenant_engines, rt[w].slug)
          /\ tenant_session_makers' = Without(tenant_session_makers, rt[w].slug)
          /\ RouterReturn(w, "close_tenant_connections", rt[w].slug, "ok")
     ELSE /\ RouterReturn(w, "close_tenant_connections", rt[w].slug, "key_error")
          /\ UNCHANGED <<tenant_engines, tenant_session_makers>>
  /\ UNCHANGED <<planRows, moduleRows, tenants, nextId, users, roles, history, schemas, today, usage_logs,
               wk, gateVars, engines>>

RouterStep(w) ==
  \/ \E slug \in Slugs : GetTenantEngine(w, slug)
  \/ \E slug \in Slugs : GetTenantSessionBegin(w, slug)
  \/ SetSearchPath(w)
  \/ SessionClose(w)
  \/ \E slug \in Slugs : CloseTenantConnectionsBegin(w, slug)
  \/ CloseTenantConnectionsFinish(w)

\* the handlers of concurrent requests on one event loop
NextRouter == \E w \in Workers : RouterStep(w)

SpecRouter == Init /\ [][NextRouter]_vars

(***************************************************************************)
(* Claims on the lifecycle service                                         *)
(***************************************************************************)
\* C1: in every reachable state check_module_access(T, M) is false for every
\* module M when tenant T is SUSPENDED, also for the modules T has enabled.
C1_SuspendedTenantDenied ==
  \A tid \in DOMAIN tenants : \A m \in DEFAULT_MODULES :
    tenants[tid].status = "suspended" => ~check_module_access(tid, m)

\* the modules callers ask about: the catalog's and one it does not define
ModuleInputs == DEFAULT_MODULES \cup {"benefits"}

\* C2: check_module_access(id, M) is true exactly when the tenant exists, its
\* status is ACTIVE or TRIAL and M is one of its enabled_modules.
C2_AccessIffOperationalAndGranted ==
  \A tid \in 0..MaxTenants : \A m \in ModuleInputs :
    check_module_access(tid, m) <=>
      /\ tid \in DOMAIN tenants
      /\ tenants[tid].status \in {"active", "trial"}
      /\ m \in tenants[tid].enabled_modules

\* rows some table holds for tenant id tid
RowsOf(tid) ==
  \/ tid \in DOMAIN tenants
  \/ \E u \in users : u.tenant_id = tid
  \/ \E r \in roles : r.tenant_id = tid

\* C8: when partition creation fails during create_tenant the call fails and
\* neither the tenant row nor an admin user or role row for it is committed.
C8_PartitionFailureCommitsNothing ==
  (last.op = "create_tenant" /\ last.res = "partition_failed") =>
    /\ ~RowsOf(last.tid)
    /\ \A t \in DOMAIN tenants : tenants[t].slug # last.slug

C8_Witness ==
  /\ last.op = "create_tenant"
  /\ last.res = "partition_failed"
  /\ last.tid > 0

\* C9: when create_tenant fails after the partition was created and before
\* the commit, no row of it is committed, the empty partition stays, and no
\* create_tenant ever fails because the partition of its slug exists already
\* (the retry gets past the partition step).
C9_LateFailureRollsBackAndRetryPasses ==
  /\ (last.op = "create_tenant" /\ last.res \in {"admin_conflict", "commit_failed"}) =>
       /\ ~RowsOf(last.tid)
       /\ last.slug \in schemas
       /\ \A t \in DOMAIN tenants : tenants[t].slug # last.slug
  /\ last.op = "create_tenant" => last.res # "schema_exists"

\* a create_tenant failed late for a slug, and the retry with the same slug is
\* past the partition step
C9_Witness ==
  /\ last.op = "create_tenant"
  /\ last.res \in {"admin_conflict", "commit_failed"}
  /\ \E w \in Workers :
       /\ wk[w].op = "create_tenant"
       /\ wk[w].slug = last.slug
       /\ wk[w].pc = "commit"

\* C10: right after a successful create_tenant or update_subscription the
\* tenant's enabled_modules, max_users, max_employees and max_storage_gb are
\* those of the plan its plan column names.
C10_GrantMatchesPlanAfterAssignment ==
  (last.res = "ok" /\ last.op \in {"create_tenant", "update_subscription"}) =>
    /\ last.tid \in DOMAIN tenants
    /\ LET row == tenants[last.tid]
           plan == PlanData(row.plan)
       IN  /\ row.enabled_modules = plan.enabled_modules
           /\ row.max_users = plan.max_users
           /\ row.max_employees = plan.max_employees
           /\ row.max_storage_gb = plan.max_storage_gb

\* an update_subscription that changed the plan has just committed
C10_Witness ==
  /\ last.res = "ok"
  /\ last.op = "update_subscription"
  /\ history # <<>>
  /\ history[Len(history)].old_plan # history[Len(history)].new_plan

(***************************************************************************)
(* Claims on the module access gate                                        *)
(***************************************************************************)
\* C3: an HTTP request whose path maps to a module, sent by a caller who holds
\* a valid token of a tenant, reaches the downstream application only if
\* check_module_access(tenant, module) was evaluated for it and returned true.
C3_ForwardedOnlyAfterCheckPassed ==
  (gate.op = "middleware" /\ gate.scope = "http" /\ gate.module # "none"
     /\ gate.claim # <<>> /\ gate.res = "forwarded")
    => gate.chk = "allowed"

\* the id of the tenant a slug names, 0 when there is none
TenantOfSlug(slug) ==
  IF \E t \in DOMAIN tenants : tenants[t].slug = slug
  THEN CHOOSE t \in DOMAIN tenants : tenants[t].slug = slug
  ELSE 0

\* C4: for a request to a module path that carries a valid token issued by
\* login, the gate resolves the tenant that token names; and two requests that
\* differ only in the X-Tenant-ID header receive the same allow/deny
\* decision.
C4_TenantFromTokenNotFromHeader ==
  /\ (gate.op = "middleware" /\ gate.scope = "http" /\ gate.module # "none"
        /\ gate.claim # <<>>)
       => (gate.source = "token" /\ gate.tid = TenantOfSlug(gate.claim))
  /\ \A r1 \in Requests, r2 \in Requests :
       /\ TokenClaim(r1) # <<>>
       /\ [r1 EXCEPT !.x_tenant_id = <<>>] = [r2 EXCEPT !.x_tenant_id = <<>>]
       => Dispatch(r1, FALSE).res = Dispatch(r2, FALSE).res

(***************************************************************************)
(* Claims on the partition router                                          *)
(***************************************************************************)
\* the engines built for a slug
EnginesOf(slug) == {i \in DOMAIN engines : engines[i].slug = slug}

\* the workers inside get_tenant_session for a slug, holding a session
SessionHolders(slug) ==
  {w \in Workers : rt[w].op = "get_tenant_session" /\ rt[w].slug = slug}

\* C5: for a slug whose pool no close call has disposed, however many workers
\* called get_tenant_engine / get_tenant_session for it concurrently, exactly
\* one engine was built: it is the one cached under the slug, the session
\* factory of the slug is bound to it and every session opened for the slug
\* uses it; none was built and dropped or left outside the cache.
C5_OnePoolPerColdSlug ==
  \A slug \in Slugs :
    (\A i \in EnginesOf(slug) : ~engines[i].disposed)
      => /\ Cardinality(EnginesOf(slug)) <= 1
         /\ \A i \in EnginesOf(slug) :
              slug \in DOMAIN tenant_engines /\ tenant_engines[slug] = i
         /\ slug \in DOMAIN tenant_session_makers
              => /\ slug \in DOMAIN tenant_engines
                 /\ tenant_session_makers[slug] = tenant_engines[slug]
         /\ \A w \in SessionHolders(slug) :
              /\ Cardinality(EnginesOf(slug)) = 1
              /\ rt[w].sess[1].engine \in EnginesOf(slug)

\* two workers are inside get_tenant_session for the same slug at once, on
\* the one engine built for it
C5_Witness ==
  \E slug \in Slugs :
    /\ Cardinality(SessionHolders(slug)) >= 2
    /\ Cardinality(EnginesOf(slug)) = 1
    /\ \A i \in EnginesOf(slug) : ~engines[i].disposed

C7_CreatePartitionIdempotent ==
  last.op = "create_tenant_schema"
    => /\ last.res \notin {"schema_exists", "duplicate_schema"}
       /\ last.res = "ok" => last.slug \in schemas

(***************************************************************************)
(* Claims on subscription changes                                          *)
(***************************************************************************)
\* the effective grant of a tenant row
Grant(row) == [enabled_modules |-> row.enabled_modules,
               max_users |-> row.max_users,
               max_employees |-> row.max_employees,
               max_storage_gb |-> row.max_storage_gb,
               feature_flags |-> row.feature_flags]

\* the step is the commit of worker w running handler op on tenant tid
Commits(w, op, tid) ==
  /\ wk[w].op = op
  /\ wk[w].tid = tid
  /\ wk[w].pc = "row_commit"
  /\ wk'[w].pc = "idle"

\* C11: the grant of a tenant (enabled_modules, quotas, feature_flags) changes
\* only in the commit of an update_subscription on that tenant: suspend,
\* activate, the profile update, get_usage, check_module_access, log_usage and
\* the seeding of the plan catalog leave it as it is, and no step removes a
\* tenant row.
C11_GrantChangesOnlyByUpdateSubscription ==
  [][\A tid \in DOMAIN tenants :
       /\ tid \in DOMAIN tenants'
       /\ Grant(tenants'[tid]) # Grant(tenants[tid])
            => \E w \in Workers : Commits(w, "update_subscription", tid)]_vars

\* a renamed, suspended tenant with a usage-log row, still holding the grant
\* of its plan
C11_Witness ==
  \E tid \in DOMAIN tenants :
    /\ tenants[tid].name = "Acme Ltd"
    /\ tenants[tid].status = "suspended"
    /\ usage_logs # <<>>
    /\ last.op = "check_module_access"
    /\ tenants[tid].enabled_modules = PlanData(tenants[tid].plan).enabled_modules

\* C12: a successful update_subscription(T, new_plan) appends exactly one
\* history row for T, with old_plan the plan T held just before the call and
\* new_plan the requested plan, and leaves T on the new plan with its quotas;
\* no other step appends a row, and no step changes or removes a row that is
\* already there.
C12_OneHistoryRowPerPlanChange ==
  [][/\ Len(history') >= Len(history)
     /\ SubSeq(history', 1, Len(history)) = history
     /\ \A w \in Workers, tid \in DOMAIN tenants :
          (Commits(w, "update_subscription", tid) /\ last'.res = "ok")
            => /\ history' = Append(history, [tenant_id |-> tid,
                                               old_plan |-> tenants[tid].plan,
                                               new_plan |-> wk[w].plan_type])
               /\ tenants'[tid].plan = wk[w].plan_type
               /\ tenants'[tid].max_users = PlanData(wk[w].plan_type).max_users
               /\ tenants'[tid].max_employees
                    = PlanData(wk[w].plan_type).max_employees
               /\ tenants'[tid].max_storage_gb
                    = PlanData(wk[w].plan_type).max_storage_gb
     /\ history' # history
          => \E w \in Workers, tid \in DOMAIN tenants :
               Commits(w, "update_subscription", tid) /\ last'.res = "ok"]_vars

\* a tenant created on free went to basic and back: two rows, the second
\* starting from the plan the first ended on, the quotas those of free again
C12_Witness ==
  /\ Len(history) = 2
  /\ history[1].old_plan = "free" /\ history[1].new_plan = "basic"
  /\ history[2].old_plan = "basic" /\ history[2].new_plan = "free"
  /\ \E tid \in DOMAIN tenants :
       /\ history[2].tenant_id = tid
       /\ tenants[tid].max_employees = PlanData("free").max_employees

HistoryOf(tid) == SelectSeq(history, LAMBDA row : row.tenant_id = tid)

\* C14: overlapping update_subscription, suspend and activate calls on one
\* tenant leave what some serial order of them leaves: every history row of
\* the tenant starts from the plan the row before it ended on, and the last
\* row ends on the plan the tenant row holds.
C14_OverlappingCallsSerialize ==
  \A tid \in DOMAIN tenants :
    LET rows == HistoryOf(tid)
    IN  /\ \A i \in 2..Len(rows) : rows[i].old_plan = rows[i - 1].new_plan
        /\ (rows # <<>> /\ \A w \in Workers : wk[w].pc = "idle")
             => rows[Len(rows)].new_plan = tenants[tid].plan

(***************************************************************************)
(* Claims on trial periods and the status lifecycle                        *)
(***************************************************************************)
\* the days a trial that was started on or before today can end on
TrialEnds(days) == {d + days : d \in 0..today}

\* C15: a tenant that create_tenant has just created on a plan with
\* trial_days > 0 has status TRIAL and a trial_ends_at equal to the day of its
\* creation plus trial_days.
C15_TrialTenantHasTrialEnd ==
  (last.op = "create_tenant" /\ last.res = "ok"
     /\ PlanData(tenants[last.tid].plan).trial_days > 0)
    => /\ tenants[last.tid].status = "trial"
       /\ tenants[last.tid].trial_ends_at
            \in TrialEnds(PlanData(tenants[last.tid].plan).trial_days)

\* C16: a tenant that create_tenant has just created on a plan with
\* trial_days = 0 has status ACTIVE and no trial_ends_at, and no tenant row is
\* in status PENDING.
C16_NoTrialTenantIsActive ==
  /\ (last.op = "create_tenant" /\ last.res = "ok"
        /\ PlanData(tenants[last.tid].plan).trial_days = 0)
       => /\ tenants[last.tid].status = "active"
          /\ tenants[last.tid].trial_ends_at = NoDate
  /\ \A tid \in DOMAIN tenants : tenants[tid].status # "pending"

\* C17: a successful update_subscription to a plan with trial_days > 0 of a
\* tenant that is not in TRIAL sets the status to TRIAL and trial_ends_at to
\* the day of the call plus trial_days; when the tenant is already in TRIAL or
\* the new plan has no trial, status and trial_ends_at stay as they were.
C17_TrialRestartsUnlessInTrial ==
  [][\A w \in Workers, tid \in DOMAIN tenants :
       (Commits(w, "update_subscription", tid) /\ last'.res = "ok")
         => LET days == PlanData(wk[w].plan_type).trial_days
            IN  IF days > 0 /\ tenants[tid].status # "trial"
                THEN /\ tenants'[tid].status = "trial"
                     /\ tenants'[tid].trial_ends_at \in TrialEnds(days)
                ELSE /\ tenants'[tid].status = tenants[tid].status
                     /\ tenants'[tid].trial_ends_at
                          = tenants[tid].trial_ends_at]_vars

\* C18: suspend and activate change neither the modules granted to the tenant
\* nor its partition, users, roles, history or usage rows, and once activate
\* has succeeded the tenant is ACTIVE and check_module_access is true for
\* every module it is granted: a module granted before a suspension is
\* accessible again after the activation, without being granted anew.
C18_ActivateRestoresAccess ==
  /\ []((last.op = "activate" /\ last.res = "ok")
         => /\ tenants[last.tid].status = "active"
            /\ \A module \in tenants[last.tid].enabled_modules :
                 check_module_access(last.tid, module))
  /\ [][\A w \in Workers, tid \in DOMAIN tenants :
          (Commits(w, "suspend", tid) \/ Commits(w, "activate", tid))
            => /\ Grant(tenants'[tid]) = Grant(tenants[tid])
               /\ UNCHANGED <<schemas, users, roles, history, usage_logs>>]_vars

\* activate has just succeeded on a suspended tenant that has a partition, an
\* admin user, usage rows and the employees module
C18_Witness ==
  /\ last.op = "activate" /\ last.res = "ok" /\ last.was = "suspended"
  /\ last.slug \in schemas
  /\ usage_logs # <<>>
  /\ \E u \in users : u.tenant_id = last.tid
  /\ check_module_access(last.tid, "employees")

\* C19: a tenant row appears in PENDING, or in the TRIAL or ACTIVE that
\* create_tenant moves it to from PENDING; every later change of its status
\* is an edge of the lifecycle graph PENDING -> TRIAL|ACTIVE,
\* TRIAL|ACTIVE -> SUSPENDED, SUSPENDED -> ACTIVE,
\* ACTIVE|TRIAL -> CANCELLED|EXPIRED, so a CANCELLED tenant keeps its status.
C19_StatusFollowsLifecycleGraph ==
  [][LET edges == {<<"pending", "trial">>, <<"pending", "active">>,
                   <<"trial", "suspended">>, <<"active", "suspended">>,
                   <<"suspended", "active">>,
                   <<"active", "cancelled">>, <<"trial", "cancelled">>,
                   <<"active", "expired">>, <<"trial", "expired">>}
     IN  \A tid \in DOMAIN tenants' :
           IF tid \in DOMAIN tenants
           THEN tenants'[tid].status # tenants[tid].status
                  => <<tenants[tid].status, tenants'[tid].status>> \in edges
           ELSE tenants'[tid].status \in {"pending", "trial", "active"}]_vars

C21_ModulesAreInCatalog ==
  /\ \A tid \in DOMAIN tenants : tenants[tid].enabled_modules \subseteq moduleRows
  /\ \A plan \in DEFAULT_PLANS : plan.enabled_modules \subseteq DEFAULT_MODULES

\* a tenant moved to another plan holds modules, all of the seeded catalog
C21_Witness ==
  /\ last.op = "update_subscription" /\ last.res = "ok"
  /\ tenants[last.tid].enabled_modules # {}
  /\ moduleRows = DEFAULT_MODULES

(***************************************************************************)
(* Claims on the responses of the access gate                              *)
(***************************************************************************)
\* C22: any two denials of the access gate, by the middleware or by the
\* dependency, are the same response: the same status code and the same
\* message, whatever module was asked for and whatever made the check fail.
C22_DenialsAreUniform ==
  [][(gate.res = "denied" /\ gate'.res = "denied")
       => /\ gate'.status_code = gate.status_code
          /\ gate'.detail = gate.detail]_vars

C24_DenyOnRefusalForwardOtherwise ==
  gate.op = "middleware" =>
    /\ gate.scope # "http" => gate.res = "forwarded"
    /\ gate.chk = "refused"
         => /\ gate.res = "denied"
            /\ gate.status_code = HTTP_403_FORBIDDEN
            /\ gate.app_calls = 0
    /\ (gate.scope = "http" /\ _requires_module_check(gate.path) /\ gate.tid = 0)
         => gate.res = "forwarded"
    /\ gate.chk = "raised" => gate.res = "forwarded"
    /\ gate.res = "forwarded" => gate.app_calls = 1
    /\ gate.res = "denied" => gate.chk = "refused"

\* the access check raised on a request for a module and the request went on
C24_Witness ==
  /\ gate.op = "middleware"
  /\ gate.chk = "raised"
  /\ gate.module # "none"
  /\ gate.tid \in DOMAIN tenants
  /\ gate.app_calls = 1

NextDelete ==
  \/ InitializeDefaultData(FirstWorker)
  \/ \E pt \in GatePlans :
       CreateTenantBegin(FirstWorker, PlanSlug, pt, GateAdmin(PlanSlug))
  \/ SchemaExec(FirstWorker)
  \/ SchemaCommit(FirstWorker)
  \/ CreateTenantAdmin(FirstWorker)
  \/ CreateTenantCommit(FirstWorker)
  \/ \E tid \in TenantIds, pt \in GatePlans :
       UpdateSubscriptionLoad(FirstWorker, tid, pt)
  \/ \E tid \in TenantIds : SuspendTenantLoad(FirstWorker, tid)
  \/ \E tid \in TenantIds : ActivateTenantLoad(FirstWorker, tid)
  \/ \E tid \in TenantIds : DeleteTenantLoad(FirstWorker, tid)
  \/ \E tid \in TenantIds : RestoreTenantLoad(FirstWorker, tid)
  \/ RowCommit(FirstWorker)
  \/ \E tid \in TenantIds, module \in ProbedModules :
       CheckModuleAccess(FirstWorker, tid, module)

SpecDelete == Init /\ [][NextDelete]_vars

(***************************************************************************)
(* The catalog seeded by concurrent callers                                *)
(***************************************************************************)
SeedStep(w) ==
  \/ InitializeDefaultDataBegin(w)
  \/ InitializeDefaultDataSelect(w)
  \/ InitializeDefaultDataCommit(w)

NextSeed == \E w \in Workers : SeedStep(w)

SpecSeed == Init /\ [][NextSeed]_vars

(***************************************************************************)
(* Claims on suspension and deletion                                       *)
(***************************************************************************)
\* C26: an update_subscription that commits on a tenant that is SUSPENDED,
\* CANCELLED or EXPIRED leaves the tenant's status as it was, whatever the
\* trial_days of the new plan.
C26_PlanChangeKeepsSuspension ==
  [][\A w \in Workers, tid \in DOMAIN tenants :
       (/\ Commits(w, "update_subscription", tid)
        /\ last'.res = "ok"
        /\ tenants[tid].status \in {"suspended", "cancelled", "expired"})
         => tenants'[tid].status = tenants[tid].status]_vars

\* C27: while a tenant row is marked is_deleted, check_module_access answers
\* false for every module of the catalog, and no step removes a tenant row.
C27_DeletedTenantHasNoAccess ==
  /\ [](\A tid \in DOMAIN tenants :
          tenants[tid].is_deleted
            => \A module \in DEFAULT_MODULES : ~check_module_access(tid, module))
  /\ [][DOMAIN tenants \subseteq DOMAIN tenants']_vars

(***************************************************************************)
(* Claims on partitions, pools and the catalog                             *)
(***************************************************************************)
\* C28: with create_tenant, update_subscription, suspend and activate as
\* the only operations on tenants, every committed tenant row has the schema
\* of its slug, no step changes the slug of a row and no step removes a
\* schema.
C28_TenantHasPartition ==
  /\ [](\A tid \in DOMAIN tenants : tenants[tid].slug \in schemas)
  /\ [][/\ \A tid \in DOMAIN tenants :
            tid \in DOMAIN tenants' /\ tenants'[tid].slug = tenants[tid].slug
        /\ schemas \subseteq schemas']_vars

C28_Witness ==
  /\ last.op = "activate"
  /\ last.res = "ok"
  /\ Cardinality(DOMAIN tenants) = MaxTenants
  /\ \A tid \in DOMAIN tenants : tenants[tid].slug \in schemas
  /\ \E tid \in DOMAIN tenants : tenants[tid].plan # "free"

\* C29: every close_tenant_connections(slug) call returns without raising,
\* whatever other close calls run at the same time, and when it returns
\* neither tenant_engines nor tenant_session_makers has an entry for slug; a
\* call for a slug without a cached engine changes no cached engine.
C29_CloseIsSafeUnderOverlap ==
  [][/\ \A w \in Workers :
          (/\ rt[w].pc = "disposing"
           /\ rt'[w].pc = "idle")
            => /\ last'.res = "ok"
               /\ rt[w].slug \notin DOMAIN tenant_engines'
               /\ rt[w].slug \notin DOMAIN tenant_session_makers'
     /\ (/\ rt' = rt
         /\ last' # last
         /\ last'.op = "close_tenant_connections")
          => /\ last'.res = "ok"
             /\ UNCHANGED <<engines, tenant_engines>>
             /\ last'.slug \notin DOMAIN tenant_session_makers']_vars

====
